---------------------------- MODULE Spec2Model ----------------------------
(***************************************************************************)
(* A model of excelfinder.py: the command line is parsed, the spreadsheet  *)
(* files of the directory are listed, every file is searched for the       *)
(* target strings (sheet names first, cells on request, behind a size      *)
(* gate), and the results are printed.                                     *)
(*                                                                         *)
(* Strings are sequences of one-character strings.  A cell value is a      *)
(* record [isStr, repr]: repr is what str(x) gives, isStr tells whether    *)
(* the value is a Python str (only a str has a find method).  Sizes and    *)
(* the threshold are counted in tenths of a megabyte.  Python lists live   *)
(* in a heap of list objects, so that a missing copy() shows as aliasing.  *)
(***************************************************************************)
EXTENDS Integers, Sequences, FiniteSets, TLC

VARIABLES
    pc,                 \* position of the script
    exception,          \* the uncaught exception that ended the run, or "none"
    argv,               \* the command line the run was started with
    SIZE_THRESHOLD,     \* module global, line 12
    VALUES_TO_SEARCH,   \* module global, line 13: a list reference or "None"
    heap,               \* the list objects: reference -> contents
    search_cells,       \* args.cells as returned by parse_arguments
    excel_files,        \* the list of ExcelFile objects
    idx,                \* position of find_values' loop in excel_files (1-based)
    workbook,           \* what the container of the current file holds
    tempdir,            \* whether the directory temp_excelfinder exists
    temp_ref,           \* temp_values_to_search of find_values
    cells_ref,          \* values_to_search of look_for_values_in_file
    sheet_i,            \* position of look_for_values_in_file's sheet loop
    row_i,              \* rows of the current sheet handed to the matcher
    cells_stage,        \* are_all_cells_in_file was called for the current file
    prompted,           \* input() was called for the current file
    answer,             \* what the operator typed, or "none"
    scan_started,       \* look_for_values_in_file was called for the current file
    reads,              \* pd.read_excel calls made for the current file
    cells_read,         \* the cell values of the current file seen so far
    found_files,        \* print_results: ids reported as found
    files_too_big,      \* print_results: ids reported as skipped for size
    m_pc,               \* matcher in isolation: position
    m_values,           \* matcher in isolation: file_values
    m_targets,          \* matcher in isolation: values_to_search on entry
    m_result            \* matcher in isolation: outcome

vars == <<pc, exception, argv, SIZE_THRESHOLD, VALUES_TO_SEARCH, heap,
          search_cells, excel_files, idx, workbook, tempdir, temp_ref,
          cells_ref, sheet_i, row_i, cells_stage, prompted, answer,
          scan_started, reads, cells_read, found_files, files_too_big,
          m_pc, m_values, m_targets, m_result>>

runVars == <<pc, exception, argv, SIZE_THRESHOLD, VALUES_TO_SEARCH, heap,
             search_cells, excel_files, idx, workbook, tempdir, temp_ref,
             cells_ref, sheet_i, row_i, cells_stage, prompted, answer,
             scan_started, reads, cells_read, found_files, files_too_big>>

matchVars == <<m_pc, m_values, m_targets, m_result>>

-----------------------------------------------------------------------------
(* Bounds *)

MaxFiles == 2
MaxRows == 2
Cols == 2
MaxStrLen == 2
MaxValues == 2
MaxTargets == 2

SeqsUpTo(S, n) == UNION {[1..k -> S] : k \in 0..n}

-----------------------------------------------------------------------------
(* Strings and cell values *)

StrVal(s) == [isStr |-> TRUE, repr |-> s]
NumVal(s) == [isStr |-> FALSE, repr |-> s]

\* str(x)
str(x) == x.repr

\* a find that looks at the start of s only
FindAtStart(s, t) ==
    IF Len(t) <= Len(s) /\ SubSeq(s, 1, Len(t)) = t THEN 0 ELSE -1

\* s.find(t): the lowest 0-based index where t occurs in s, -1 when none
Find(s, t) ==
    LET hits == {i \in 0..(Len(s) - Len(t)) : SubSeq(s, i + 1, i + Len(t)) = t}
    IN IF hits = {} THEN -1 ELSE CHOOSE i \in hits : \A j \in hits : i <= j

\* str.split(','): the pieces between the commas, empty pieces kept
RECURSIVE SplitFrom(_, _, _)
SplitFrom(s, i, piece) ==
    IF i > Len(s) THEN <<piece>>
    ELSE IF s[i] = "," THEN <<piece>> \o SplitFrom(s, i + 1, <<>>)
    ELSE SplitFrom(s, i + 1, Append(piece, s[i]))

Split(s) == SplitFrom(s, 1, <<>>)

-----------------------------------------------------------------------------
(* match_values_in_files, lines 72-89 *)

\* is_substring(col_val, list_of_values), lines 74-78
is_substring(col_val, list_of_values) ==
    \E k \in 1..Len(list_of_values) : Find(col_val, list_of_values[k]) # -1

\* list.remove(val): the first occurrence goes
RemoveFirst(list, val) ==
    LET at == CHOOSE k \in 1..Len(list) :
                  list[k] = val /\ \A j \in 1..(k - 1) : list[j] # val
    IN SubSeq(list, 1, at - 1) \o SubSeq(list, at + 1, Len(list))

\* lines 86-87: for val in value_to_remove: values_to_search.remove(val)
RECURSIVE RemoveEach(_, _)
RemoveEach(list, value_to_remove) ==
    IF value_to_remove = <<>> THEN list
    ELSE RemoveEach(RemoveFirst(list, Head(value_to_remove)), Tail(value_to_remove))

\* line 81: the values whose string form holds some target, as they are
\* (the value itself is kept, not its string form)
MatchedCells(file_values, values_to_search) ==
    SelectSeq(file_values, LAMBDA x : is_substring(str(x), values_to_search))

\* lines 84-87.  file_value.find(x) is evaluated for each x of the list, so it
\* is reached only while the list is not empty; a value that is not a str has
\* no find and the call raises AttributeError, the list left as it then is.
RECURSIVE RemoveLoop(_, _)
RemoveLoop(matched_cells, values_to_search) ==
    IF matched_cells = <<>>
    THEN [raised |-> FALSE, list |-> values_to_search]
    ELSE LET file_value == Head(matched_cells)
         IN IF values_to_search = <<>>
            THEN RemoveLoop(Tail(matched_cells), values_to_search)
            ELSE IF ~file_value.isStr
            THEN [raised |-> TRUE, list |-> values_to_search]
            ELSE LET value_to_remove ==
                         SelectSeq(values_to_search,
                                   LAMBDA x : Find(file_value.repr, x) # -1)
                 IN RemoveLoop(Tail(matched_cells),
                               RemoveEach(values_to_search, value_to_remove))

\* The call as a whole: whether it raised, what it returned ("True", or
\* "None" when the function falls off its end) and the list it leaves.
match_values_in_files(file_values, values_to_search) ==
    LET r == RemoveLoop(MatchedCells(file_values, values_to_search),
                        values_to_search)
    IN [raised |-> r.raised,
        ret    |-> IF ~r.raised /\ r.list = <<>> THEN "True" ELSE "None",
        list   |-> r.list]

-----------------------------------------------------------------------------
(* The matcher in isolation: every call on bounded inputs *)

Alphabet == {"a", "A", "4"}
Strings == SeqsUpTo(Alphabet, MaxStrLen)
Digits == {<<"4">>, <<"4", "4">>}
Values == {StrVal(s) : s \in Strings} \cup {NumVal(s) : s \in Digits}

NoResult == [raised |-> FALSE, ret |-> "None", list |-> <<>>]

InitMatch ==
    /\ m_pc = "call"
    /\ m_values \in SeqsUpTo(Values, MaxValues)
    /\ m_targets \in SeqsUpTo(Strings, MaxTargets)
    /\ m_result = NoResult

MatchIdle ==
    /\ m_pc = "idle"
    /\ m_values = <<>>
    /\ m_targets = <<>>
    /\ m_result = NoResult

MatchCall ==
    /\ m_pc = "call"
    /\ m_result' = match_values_in_files(m_values, m_targets)
    /\ m_pc' = "returned"
    /\ UNCHANGED <<m_values, m_targets>>
    /\ UNCHANGED runVars

-----------------------------------------------------------------------------
(* The inputs of a run *)

\* --search as typed; given = FALSE when the option is left out
SearchArgs ==
    {[given |-> FALSE, text |-> <<>>]} \cup
    {[given |-> TRUE, text |-> t] :
        t \in {<<>>, <<"A">>, <<"4">>, <<"A", ",", "a">>}}

\* --size as typed: a number (in tenths of a megabyte) or not a number.
\* 10 is the default of line 188.
SizeArgs ==
    {[numeric |-> TRUE, tenths |-> 10], [numeric |-> TRUE, tenths |-> 30],
     [numeric |-> FALSE, tenths |-> 0]}

\* round(os.path.getsize(x)/1000000, 1), in tenths
FileSizes == {10, 50}

\* what the operator may type at the prompt of line 103
Answers == {"y", "Y", "n", ""}

\* the sheet lists a manifest may hold
Manifests ==
    {<<<<"A">>>>, <<<<"A">>, <<"b">>>>, <<<<"A">>, <<"a", "4">>>>,
     <<<<"b">>, <<"b">>>>}

CellPool == {StrVal(<<"a", "4">>), StrVal(<<"A">>), NumVal(<<"4">>)}

\* one row of df.values: a sheet of Cols columns
Rows == [1..Cols -> CellPool]

\* what a file holds: not a zip container, a container without
\* xl/workbook.xml, a workbook.xml without a sheet list, or a workbook whose
\* manifest lists the sheets `names`
Workbooks ==
    {[kind |-> k, names |-> <<>>] : k \in {"notzip", "nomanifest", "nosheets"}}
    \cup {[kind |-> "ok", names |-> ns] : ns \in Manifests}

NoWorkbook == [kind |-> "none", names |-> <<>>]

\* ExcelFile(id, path, size), lines 15-22
ExcelFile(id, size) ==
    [id |-> id, size |-> size, are_values_found |-> FALSE,
     file_too_big |-> FALSE, sheet_names |-> <<>>]

-----------------------------------------------------------------------------
(* The run *)

Refs == {"L0", "L1", "L2"}

argVars == <<argv, SIZE_THRESHOLD, VALUES_TO_SEARCH, search_cells>>
logVars == <<cells_stage, prompted, answer, scan_started, reads, cells_read>>
reportVars == <<found_files, files_too_big>>

NoArgv == [search |-> [given |-> FALSE, text |-> <<>>],
           size |-> [numeric |-> TRUE, tenths |-> 10], cells |-> FALSE]

Init ==
    /\ pc = "start"
    /\ exception = "none"
    /\ argv = NoArgv
    /\ SIZE_THRESHOLD = 0
    /\ VALUES_TO_SEARCH = "L0"
    /\ heap = [r \in Refs |-> <<>>]
    /\ search_cells = FALSE
    /\ excel_files = <<>>
    /\ idx = 1
    /\ workbook = NoWorkbook
    /\ tempdir \in BOOLEAN
    /\ temp_ref = "null"
    /\ cells_ref = "null"
    /\ sheet_i = 0
    /\ row_i = 0
    /\ cells_stage = FALSE
    /\ prompted = FALSE
    /\ answer = "none"
    /\ scan_started = FALSE
    /\ reads = 0
    /\ cells_read = {}
    /\ found_files = {}
    /\ files_too_big = {}
    /\ MatchIdle

\* validate_values, lines 170-174: the pieces, or None for the empty string
validate_values(str_to_search) ==
    IF Len(str_to_search) > 0
    THEN [none |-> FALSE, list |-> Split(str_to_search)]
    ELSE [none |-> TRUE, list |-> <<>>]

\* parse_arguments, lines 159-197.  validate_size leaves through sys.exit()
\* on a value float() refuses; argparse itself leaves when the required
\* --search is not given.
ParseArguments ==
    /\ pc = "start"
    /\ \E search \in SearchArgs, size \in SizeArgs, cells \in BOOLEAN :
          /\ argv' = [search |-> search, size |-> size, cells |-> cells]
          /\ IF ~size.numeric \/ ~search.given
             THEN /\ pc' = "exited"
                  /\ UNCHANGED <<SIZE_THRESHOLD, VALUES_TO_SEARCH, heap, search_cells>>
             ELSE LET v == validate_values(search.text)
                  IN /\ SIZE_THRESHOLD' = size.tenths
                     /\ VALUES_TO_SEARCH' = IF v.none THEN "None" ELSE "L0"
                     /\ heap' = [heap EXCEPT !["L0"] = v.list]
                     /\ search_cells' = cells
                     /\ pc' = "discover"
    /\ UNCHANGED <<exception, excel_files, idx, workbook, tempdir, temp_ref,
                   cells_ref, sheet_i, row_i>>
    /\ UNCHANGED <<logVars, reportVars, matchVars>>

\* get_list_of_excel_files_in_directory, lines 200-210: the files found get
\* the ids 0, 1, ... and their sizes
Discover ==
    /\ pc = "discover"
    /\ \E n \in 0..MaxFiles :
          \E sizes \in [1..n -> FileSizes] :
             excel_files' = [i \in 1..n |-> ExcelFile(i - 1, sizes[i])]
    /\ idx' = 1
    /\ pc' = "find_values"
    /\ UNCHANGED <<exception, heap, workbook, tempdir, temp_ref,
                   cells_ref, sheet_i, row_i>>
    /\ UNCHANGED <<argVars, logVars, reportVars, matchVars>>

\* xmltodict.parse gives the one child of <sheets> as a dict and several
\* children as a list of dicts
xmltodict_sheet(names) ==
    [isList |-> Len(names) # 1, entries |-> names]

\* get_sheet_details, lines 24-55, on a file holding wb, the directory
\* temp_excelfinder existing or not on entry: the exception that leaves the
\* function (or "none"), the names returned, and whether the directory
\* exists on exit.  Lines 32-34 leave the directory existing; only line 54
\* removes it.  Iterating a dict yields its keys, and subscripting a key (a
\* str) with '@sheetId' raises TypeError.
get_sheet_details(wb, dir_exists) ==
    IF wb.kind = "notzip"
    THEN [exception |-> "BadZipFile", sheets |-> <<>>, tempdir |-> TRUE]
    ELSE IF wb.kind = "nomanifest"
    THEN [exception |-> "FileNotFoundError", sheets |-> <<>>, tempdir |-> TRUE]
    ELSE IF wb.kind = "nosheets"
    THEN [exception |-> "KeyError", sheets |-> <<>>, tempdir |-> TRUE]
    ELSE LET parsed == xmltodict_sheet(wb.names)
         IN IF ~parsed.isList
            THEN [exception |-> "TypeError", sheets |-> <<>>, tempdir |-> TRUE]
            ELSE [exception |-> "none", sheets |-> parsed.entries,
                  tempdir |-> FALSE]

\* a list copied without copy() is the same object
AliasRef(src, fresh) == src

\* list.copy(), lines 107, 113, 122: a new list object
CopyRef(src, fresh) == fresh

\* find_values, line 121: the loop is over
FindValuesReturn ==
    /\ pc = "find_values"
    /\ idx > Len(excel_files)
    /\ pc' = "print_results"
    /\ UNCHANGED <<exception, heap, excel_files, idx, workbook, tempdir,
                   temp_ref, cells_ref, sheet_i, row_i>>
    /\ UNCHANGED <<argVars, logVars, reportVars, matchVars>>

\* find_values, lines 121-123, for the next file: the working copy of the
\* targets (None has no copy: AttributeError), then get_sheet_details on
\* what the file holds
StartFile ==
    /\ pc = "find_values"
    /\ idx <= Len(excel_files)
    /\ IF VALUES_TO_SEARCH = "None"
       THEN /\ exception' = "AttributeError"
            /\ pc' = "aborted"
            /\ UNCHANGED <<heap, excel_files, workbook, tempdir, temp_ref>>
       ELSE /\ temp_ref' = CopyRef(VALUES_TO_SEARCH, "L1")
            /\ heap' = [heap EXCEPT !["L1"] = heap[VALUES_TO_SEARCH]]
            /\ \E wb \in Workbooks :
                  LET r == get_sheet_details(wb, tempdir)
                  IN /\ workbook' = wb
                     /\ tempdir' = r.tempdir
                     /\ IF r.exception # "none"
                        THEN /\ exception' = r.exception
                             /\ pc' = "aborted"
                             /\ UNCHANGED excel_files
                        ELSE /\ excel_files' =
                                  [excel_files EXCEPT ![idx].sheet_names = r.sheets]
                             /\ pc' = "sheet_names"
                             /\ UNCHANGED exception
    /\ UNCHANGED <<idx, cells_ref, sheet_i, row_i>>
    /\ UNCHANGED <<argVars, logVars, reportVars, matchVars>>

\* the branch taken whenever the cell search is requested
GoesToCellsIfRequested(temp_values_to_search, cells) == cells

\* line 127: if temp_values_to_search and search_cells
GoesToCells(temp_values_to_search, cells) ==
    temp_values_to_search # <<>> /\ cells

\* the sheet names as the values handed to the matcher at line 125
NameValues(sheet_names) ==
    [k \in 1..Len(sheet_names) |-> StrVal(sheet_names[k])]

\* find_values, lines 125-130: the sheet names are matched against the
\* working copy, then the branch to the cell search, to "found", or to
\* nothing
MatchSheetNames ==
    /\ pc = "sheet_names"
    /\ LET r == match_values_in_files(NameValues(excel_files[idx].sheet_names),
                                      heap[temp_ref])
       IN /\ heap' = [heap EXCEPT ![temp_ref] = r.list]
          /\ IF r.raised
             THEN /\ exception' = "AttributeError"
                  /\ pc' = "aborted"
                  /\ UNCHANGED <<excel_files, cells_stage>>
             ELSE IF GoesToCells(r.list, search_cells)
             THEN /\ pc' = "size_gate"
                  /\ cells_stage' = TRUE
                  /\ UNCHANGED <<exception, excel_files>>
             ELSE IF r.list = <<>>
             THEN /\ excel_files' =
                       [excel_files EXCEPT ![idx].are_values_found = TRUE]
                  /\ pc' = "file_done"
                  /\ UNCHANGED <<exception, cells_stage>>
             ELSE /\ pc' = "file_done"
                  /\ UNCHANGED <<exception, excel_files, cells_stage>>
    /\ UNCHANGED <<idx, workbook, tempdir, temp_ref, cells_ref, sheet_i, row_i,
                   prompted, answer, scan_started, reads, cells_read>>
    /\ UNCHANGED <<argVars, reportVars, matchVars>>

\* the gate asking also at the threshold
NeedsConfirmationFromThreshold(size, size_threshold) == size >= size_threshold

\* line 100: if file.size > size_threshold
NeedsConfirmation(size, size_threshold) == size > size_threshold

\* a declined file reported as found
DeclinedReturnTrue == TRUE

\* line 110: return False
DeclinedReturn == FALSE

\* look_for_values_in_file is entered (lines 107, 113) with a copy of the
\* remaining targets; with no sheet to visit it returns False at once
EnterScan ==
    /\ cells_ref' = CopyRef(temp_ref, "L2")
    /\ heap' = [heap EXCEPT !["L2"] = heap[temp_ref]]
    /\ scan_started' = TRUE
    /\ sheet_i' = 1
    /\ row_i' = 0
    /\ IF Len(excel_files[idx].sheet_names) = 0
       THEN /\ pc' = "file_done"
            /\ excel_files' = [excel_files EXCEPT ![idx].are_values_found = FALSE]
       ELSE /\ pc' = "read_sheet"
            /\ UNCHANGED excel_files

\* are_all_cells_in_file, lines 100-110: the file is over the threshold, the
\* operator is asked; 'y' enters the scan, anything else marks the file
SizeGateAsk ==
    /\ pc = "size_gate"
    /\ NeedsConfirmation(excel_files[idx].size, SIZE_THRESHOLD)
    /\ prompted' = TRUE
    /\ \E typed \in Answers :
          /\ answer' = typed
          /\ IF typed = "y"
             THEN EnterScan
             ELSE /\ excel_files' =
                       [excel_files EXCEPT ![idx].file_too_big = TRUE,
                                           ![idx].are_values_found = DeclinedReturn]
                  /\ pc' = "file_done"
                  /\ UNCHANGED <<heap, cells_ref, scan_started, sheet_i, row_i>>
    /\ UNCHANGED <<exception, idx, workbook, tempdir, temp_ref,
                   cells_stage, reads, cells_read>>
    /\ UNCHANGED <<argVars, reportVars, matchVars>>

\* are_all_cells_in_file, lines 111-113: within the threshold, no prompt
SizeGatePass ==
    /\ pc = "size_gate"
    /\ ~NeedsConfirmation(excel_files[idx].size, SIZE_THRESHOLD)
    /\ EnterScan
    /\ UNCHANGED <<exception, idx, workbook, tempdir, temp_ref,
                   cells_stage, prompted, answer, reads, cells_read>>
    /\ UNCHANGED <<argVars, reportVars, matchVars>>

\* look_for_values_in_file, line 65: pd.read_excel on the next sheet, which
\* gives its rows or raises
ReadSheet ==
    /\ pc = "read_sheet"
    /\ reads' = reads + 1
    /\ row_i' = 0
    /\ \E readable \in BOOLEAN :
          IF readable
          THEN /\ pc' = "rows"
               /\ UNCHANGED exception
          ELSE /\ pc' = "aborted"
               /\ exception' = "ReadError"
    /\ UNCHANGED <<heap, excel_files, idx, workbook, tempdir, temp_ref,
                   cells_ref, sheet_i, cells_stage, prompted, answer,
                   scan_started, cells_read>>
    /\ UNCHANGED <<argVars, reportVars, matchVars>>

\* look_for_values_in_file, lines 66-68: the next row of the sheet goes to
\* the matcher with the scan's list; True ends the scan
ScanRow ==
    /\ pc = "rows"
    /\ row_i < MaxRows
    /\ \E row \in Rows :
          LET r == match_values_in_files(row, heap[cells_ref])
          IN /\ cells_read' = cells_read \cup {row[k] : k \in 1..Len(row)}
             /\ heap' = [heap EXCEPT ![cells_ref] = r.list]
             /\ IF r.raised
                THEN /\ exception' = "AttributeError"
                     /\ pc' = "aborted"
                     /\ UNCHANGED <<excel_files, row_i>>
                ELSE IF r.ret = "True"
                THEN /\ excel_files' =
                          [excel_files EXCEPT ![idx].are_values_found = TRUE]
                     /\ pc' = "file_done"
                     /\ UNCHANGED <<exception, row_i>>
                ELSE /\ row_i' = row_i + 1
                     /\ UNCHANGED <<exception, excel_files, pc>>
    /\ UNCHANGED <<idx, workbook, tempdir, temp_ref, cells_ref, sheet_i,
                   cells_stage, prompted, answer, scan_started, reads>>
    /\ UNCHANGED <<argVars, reportVars, matchVars>>

\* look_for_values_in_file, lines 64-69: the sheet has no further row; the
\* next sheet is read, or after the last one the function returns False
EndOfSheet ==
    /\ pc = "rows"
    /\ IF sheet_i < Len(excel_files[idx].sheet_names)
       THEN /\ sheet_i' = sheet_i + 1
            /\ pc' = "read_sheet"
            /\ UNCHANGED excel_files
       ELSE /\ excel_files' = [excel_files EXCEPT ![idx].are_values_found = FALSE]
            /\ pc' = "file_done"
            /\ UNCHANGED sheet_i
    /\ UNCHANGED <<exception, heap, idx, workbook, tempdir, temp_ref,
                   cells_ref, row_i>>
    /\ UNCHANGED <<argVars, logVars, reportVars, matchVars>>

\* find_values, line 121: on to the next file; the working lists of the file
\* just done are dropped
NextFile ==
    /\ pc = "file_done"
    /\ idx' = idx + 1
    /\ pc' = "find_values"
    /\ heap' = [heap EXCEPT !["L1"] = <<>>, !["L2"] = <<>>]
    /\ temp_ref' = "null"
    /\ cells_ref' = "null"
    /\ workbook' = NoWorkbook
    /\ sheet_i' = 0
    /\ row_i' = 0
    /\ cells_stage' = FALSE
    /\ prompted' = FALSE
    /\ answer' = "none"
    /\ scan_started' = FALSE
    /\ reads' = 0
    /\ cells_read' = {}
    /\ UNCHANGED <<exception, excel_files, tempdir>>
    /\ UNCHANGED <<argVars, reportVars, matchVars>>

\* print_results, lines 144-147: the two lists that are printed
PrintResults ==
    /\ pc = "print_results"
    /\ found_files' =
          {excel_files[i].id : i \in {j \in 1..Len(excel_files) :
                                        excel_files[j].are_values_found}}
    /\ files_too_big' =
          {excel_files[i].id : i \in {j \in 1..Len(excel_files) :
                                        /\ ~excel_files[j].are_values_found
                                        /\ excel_files[j].file_too_big}}
    /\ pc' = "launch_prompt"
    /\ UNCHANGED <<exception, heap, excel_files, idx, workbook, tempdir,
                   temp_ref, cells_ref, sheet_i, row_i>>
    /\ UNCHANGED <<argVars, logVars, matchVars>>

\* launch_file, lines 213-220, on the id typed at line 231
LaunchFile ==
    /\ pc = "launch_prompt"
    /\ \E id \in 0..MaxFiles :
          pc' = IF \E i \in 1..Len(excel_files) : excel_files[i].id = id
                THEN "launched" ELSE "no_such_id"
    /\ UNCHANGED <<exception, heap, excel_files, idx, workbook, tempdir,
                   temp_ref, cells_ref, sheet_i, row_i>>
    /\ UNCHANGED <<argVars, logVars, reportVars, matchVars>>

Next ==
    \/ ParseArguments
    \/ Discover
    \/ FindValuesReturn
    \/ StartFile
    \/ MatchSheetNames
    \/ SizeGateAsk
    \/ SizeGatePass
    \/ ReadSheet
    \/ ScanRow
    \/ EndOfSheet
    \/ NextFile
    \/ PrintResults
    \/ LaunchFile

Spec == Init /\ [][Next]_vars

\* every call of the matcher on its own
InitMatcher ==
    /\ pc = "start"
    /\ exception = "none"
    /\ argv = NoArgv
    /\ SIZE_THRESHOLD = 0
    /\ VALUES_TO_SEARCH = "L0"
    /\ heap = [r \in Refs |-> <<>>]
    /\ search_cells = FALSE
    /\ excel_files = <<>>
    /\ idx = 1
    /\ workbook = NoWorkbook
    /\ tempdir = FALSE
    /\ temp_ref = "null"
    /\ cells_ref = "null"
    /\ sheet_i = 0
    /\ row_i = 0
    /\ cells_stage = FALSE
    /\ prompted = FALSE
    /\ answer = "none"
    /\ scan_started = FALSE
    /\ reads = 0
    /\ cells_read = {}
    /\ found_files = {}
    /\ files_too_big = {}
    /\ InitMatch

NextMatcher == MatchCall

SpecMatcher == InitMatcher /\ [][NextMatcher]_vars

-----------------------------------------------------------------------------
(* The properties *)

\* t is a substring of s
IsSubstringOf(t, s) ==
    \E i \in 0..(Len(s) - Len(t)) : SubSeq(s, i + 1, i + Len(t)) = t

\* the target list the command line asks for
Targets == Split(argv.search.text)

\* the file find_values is at
AtFile == idx <= Len(excel_files)
Current == excel_files[idx]

\* t is a substring of one of the sheet names of f
InSheetNames(t, f) ==
    \E k \in 1..Len(f.sheet_names) : IsSubstringOf(t, f.sheet_names[k])

\* t is a substring of the string form of a cell read from the current file
InCellsRead(t) == \E c \in cells_read : IsSubstringOf(t, str(c))

\* the sheet names of f alone satisfy every target
NamesSatisfy(f) == \A k \in 1..Len(Targets) : InSheetNames(Targets[k], f)

\* the sheet-name match of the current file is done
PastSheetNames ==
    \/ pc \in {"size_gate", "read_sheet", "rows", "file_done"}
    \/ pc = "aborted" /\ cells_stage

\* C1: a call of match_values_in_files on any values (strings and numbers)
\* and any target list does not fail, and returns True exactly when every
\* target is a substring of the string form of some value.
C1_MatchIffAllTargetsContained ==
    m_pc = "returned" =>
        /\ ~m_result.raised
        /\ m_result.ret = "True" <=>
              \A k \in 1..Len(m_targets) :
                 \E j \in 1..Len(m_values) :
                    IsSubstringOf(m_targets[k], str(m_values[j]))

\* C2: when a file is not a zip container, has no manifest or no sheet list,
\* or has a sheet that cannot be read, the file keeps both flags false and
\* the run is not aborted.
C2_FailureIsFileScoped ==
    exception \in {"BadZipFile", "FileNotFoundError", "KeyError", "ReadError"} =>
        /\ pc # "aborted"
        /\ ~Current.are_values_found
        /\ ~Current.file_too_big

\* C3: once the size gate of a file has acted, the operator was asked iff the
\* size is strictly above the threshold; an answer other than 'y' ends the
\* file marked too big, not found, with no sheet read; a file within the
\* threshold is scanned without a prompt.
C3_SizeGate ==
    (cells_stage /\ pc # "size_gate") =>
        /\ prompted <=> Current.size > SIZE_THRESHOLD
        /\ (prompted /\ answer # "y") =>
              /\ pc = "file_done"
              /\ Current.file_too_big
              /\ ~Current.are_values_found
              /\ ~scan_started
              /\ reads = 0
        /\ Current.size <= SIZE_THRESHOLD => (scan_started /\ ~prompted)

\* C3 witness: a file over the threshold was declined with "Y"
C3_DeclinedWitness ==
    /\ pc = "file_done"
    /\ cells_stage
    /\ prompted
    /\ answer = "Y"
    /\ Current.file_too_big
    /\ reads = 0

\* C4: a file whose sheet names alone satisfy every target is found, and for
\* it there is no size-gate prompt, no scan and no sheet read, whatever the
\* search-cells flag and the size.
C4_SheetNameShortCircuit ==
    /\ (AtFile /\ PastSheetNames /\ NamesSatisfy(Current)) =>
          /\ pc = "file_done"
          /\ Current.are_values_found
          /\ ~cells_stage
          /\ ~prompted
          /\ ~scan_started
          /\ reads = 0
    /\ \A j \in 1..Len(excel_files) :
          (j < idx /\ NamesSatisfy(excel_files[j])) =>
              excel_files[j].are_values_found

\* C4 witness: cell search requested, file over the threshold, sheet names
\* satisfy both targets
C4_ShortCircuitWitness ==
    /\ pc = "file_done"
    /\ search_cells
    /\ Current.size > SIZE_THRESHOLD
    /\ Len(Targets) = 2
    /\ NamesSatisfy(Current)
    /\ Current.are_values_found

\* C5: for a workbook whose manifest lists one or more sheets,
\* get_sheet_details returns exactly the listed names in order.
C5_SheetNamesReturned ==
    workbook.kind = "ok" =>
        /\ exception # "TypeError"
        /\ Current.sheet_names = workbook.names

\* C6: whenever control has left get_sheet_details, normally or by an
\* exception, the directory temp_excelfinder does not exist.
C6_TempDirRemoved ==
    workbook.kind # "none" => ~tempdir

\* C7: no file is both found and too big, and the two lists print_results
\* reports are disjoint.
C7_FlagsExclusive ==
    /\ \A i \in 1..Len(excel_files) :
          ~(excel_files[i].are_values_found /\ excel_files[i].file_too_big)
    /\ found_files \cap files_too_big = {}

\* C7 witness: a run reported one file found and another skipped for size
C7_BothReportedWitness ==
    /\ pc = "launch_prompt"
    /\ found_files # {}
    /\ files_too_big # {}

\* C8: VALUES_TO_SEARCH holds the full target list of the command line
\* throughout the run, and each file's working list equals it when the
\* file's search starts.
C8_FreshCopyPerFile ==
    (pc \notin {"start", "exited"} /\ VALUES_TO_SEARCH # "None") =>
        /\ heap[VALUES_TO_SEARCH] = Targets
        /\ pc = "sheet_names" => heap[temp_ref] = Targets

\* C8 witness: the second file starts after the first one was found
C8_SecondFileWitness ==
    /\ pc = "sheet_names"
    /\ idx = 2
    /\ excel_files[1].are_values_found
    /\ heap[temp_ref] = Targets

\* C9: a run started with a --size that is not a number or with an empty
\* --search ends in parse_arguments, before the files are listed.
C9_InvalidArgumentsExit ==
    (pc # "start" /\ (~argv.size.numeric \/ argv.search.text = <<>>)) =>
        pc = "exited"

\* C10: a file whose cell scan ran to its end without an error is found iff
\* every target is a substring of a sheet name or of the string form of a
\* cell of the file; a file not found had every sheet read; and the scan
\* goes on only while targets remain.
C10_FoundIffAllTargetsSomewhere ==
    /\ (pc = "file_done" /\ scan_started) =>
          /\ Current.are_values_found <=>
                \A k \in 1..Len(Targets) :
                   InSheetNames(Targets[k], Current) \/ InCellsRead(Targets[k])
          /\ ~Current.are_values_found => reads = Len(Current.sheet_names)
    /\ pc \in {"read_sheet", "rows"} => heap[cells_ref] # <<>>

\* C10 witness: one target is in a sheet name only, the other in a cell of
\* the second sheet
C10_AccumulatedWitness ==
    /\ pc = "file_done"
    /\ scan_started
    /\ Current.are_values_found
    /\ reads = 2
    /\ \E k \in 1..Len(Targets) :
          InSheetNames(Targets[k], Current) /\ ~InCellsRead(Targets[k])
    /\ \E k \in 1..Len(Targets) :
          ~InSheetNames(Targets[k], Current) /\ InCellsRead(Targets[k])

=============================================================================
